---- MODULE Spec2Model ----
(***************************************************************************)
(* Authentication and admission control of the leaf-health backend         *)
(* (src/app.py): session tokens (PyJWT), the cookie-only session resolver, *)
(* the slowapi rate limiter (fixed window, in-memory storage) and the      *)
(* register / login / me / logout / predict handlers.                      *)
(*                                                                         *)
(* Every handler is an `async def` run on one event loop: code between two *)
(* awaited database round trips is one atomic step, and requests           *)
(* interleave at those round trips.  Two handler coroutines (Handlers) are *)
(* in flight at most; a finished one keeps its response until the next     *)
(* request reuses it.                                                      *)
(***************************************************************************)
EXTENDS Integers, Sequences, FiniteSets, TLC

VARIABLES
    now,          \* the wall clock, in whole seconds (datetime.utcnow / time.time)
    users,        \* rows of the users table
    nextId,       \* the users table's serial id
    analyses,     \* rows of the analyses table (user ids)
    issued,       \* every token create_access_token has returned so far
    storage,      \* limiter storage: hit count per (client, route)
    expirations,  \* limiter storage: expiry instant per (client, route)
    window,       \* history: the fixed window each (client, route) is in
    req,          \* the request each handler coroutine is serving
    jar           \* the access_token cookie each client's browser holds

vars == <<now, users, nextId, analyses, issued, storage, expirations, window, req, jar>>

(***************************************************************************)
(* Bounds of the model.                                                    *)
(***************************************************************************)
\* The clock visits 0 and each program period (a limiter window, the token
\* time-to-live), and the MaxSkew seconds after each.
MaxSkew == 1
\* Rows the users table ever receives.
MaxUsers == 2
\* Tokens issued in one behaviour.
MaxIssued == 3
\* Requests a client keeps sending to a route once its quota is used up.
MaxOver == 1
\* Requests a behaviour sends to a limited route it does not flood.
MaxSetup == 1
\* Characters of a password that follow its padding.
MaxSuffix == 4
\* Characters of a short name.
MaxNameChars == 2

(***************************************************************************)
(* Configuration (src/app.py:86-91) and the limits of the decorated routes.*)
(***************************************************************************)
JWT_SECRET_KEY == "process-secret"
JWT_ALGORITHM == "HS256"
JWT_EXPIRATION_HOURS == 24
SecondsPerHour == 3600
SecondsPerMinute == 60
TokenTTL == JWT_EXPIRATION_HOURS * SecondsPerHour

RegisterQuota == 3
LoginQuota == 5
PredictQuota == 10

LimitedRoutes == {"register", "login", "predict"}

Quota(route) ==
    CASE route = "register" -> RegisterQuota
      [] route = "login" -> LoginQuota
      [] route = "predict" -> PredictQuota

Window(route) ==
    CASE route = "register" -> SecondsPerHour
      [] route = "login" -> SecondsPerMinute
      [] route = "predict" -> SecondsPerMinute

Handlers == {"h1", "h2"}
Clients == {"10.0.0.1", "10.0.0.2"}
Emails == {"ann@x.org", "bob@x.org"}
Keys == Clients \X LimitedRoutes

\* The instants the clock visits.
Around(base) == base..(base + MaxSkew)
LimiterInstants == Around(0) \cup Around(SecondsPerMinute) \cup Around(SecondsPerHour)
TokenInstants == Around(0) \cup Around(TokenTTL)
Instants == LimiterInstants \cup TokenInstants

(***************************************************************************)
(* Policy Validator (src/app.py:99-131).  A password or a name is carried  *)
(* as the features the validators' len() and regular expressions read.     *)
(***************************************************************************)
LongPassword == [text |-> "LongPassword1!", len |-> 14, upper |-> TRUE,
                 lower |-> TRUE, digit |-> TRUE, symbol |-> TRUE]
ShortPassword == [text |-> "short1!", len |-> 7, upper |-> FALSE,
                  lower |-> TRUE, digit |-> TRUE, symbol |-> TRUE]
Passwords == {LongPassword, ShortPassword}
MinPasswordLen == 12
MinNameLen == 1
MaxNameLen == 50

\* The characters the validators' regular expressions tell apart.
UpperCase == {"A", "B", "C", "D", "E", "F", "G", "H", "I", "J", "K", "L", "M",
              "N", "O", "P", "Q", "R", "S", "T", "U", "V", "W", "X", "Y", "Z"}
LowerCase == {"a", "b", "c", "d", "e", "f", "g", "h", "i", "j", "k", "l", "m",
              "n", "o", "p", "q", "r", "s", "t", "u", "v", "w", "x", "y", "z"}
Digits == {"0", "1", "2", "3", "4", "5", "6", "7", "8", "9"}
\* The class [!@#$%^&*(),.?\":{}|<>] of line 109.
Punctuation == {"!", "@", "#", "$", "%", "^", "&", "*", "(", ")", ",", ".", "?",
                "\"", ":", "{", "}", "|", "<", ">"}
\* What \s matches and str.strip() removes.
Whitespace == {" ", "\t"}

\* The record of a password given as its characters: len(password) and the
\* four re.search calls.
PasswordOf(chars) ==
    [text |-> chars, len |-> Len(chars),
     upper |-> \E i \in 1..Len(chars) : chars[i] \in UpperCase,
     lower |-> \E i \in 1..Len(chars) : chars[i] \in LowerCase,
     digit |-> \E i \in 1..Len(chars) : chars[i] \in Digits,
     symbol |-> \E i \in 1..Len(chars) : chars[i] \in Punctuation]

\* A password without its fifth clause.
validate_password_no_symbol(password) ==
    IF password.len < 12 THEN "Password must be at least 12 characters long"
    ELSE IF ~password.upper THEN "Password must contain at least one uppercase letter"
    ELSE IF ~password.lower THEN "Password must contain at least one lowercase letter"
    ELSE IF ~password.digit THEN "Password must contain at least one number"
    ELSE "ok"

\* validate_password_strength: "ok", or the message of the first clause violated.
validate_password_strength(password) ==
    IF password.len < MinPasswordLen THEN "Password must be at least 12 characters long"
    ELSE IF ~password.upper THEN "Password must contain at least one uppercase letter"
    ELSE IF ~password.lower THEN "Password must contain at least one lowercase letter"
    ELSE IF ~password.digit THEN "Password must contain at least one number"
    ELSE IF ~password.symbol THEN "Password must contain at least one special character"
    ELSE "ok"

\* A name: its text, its length, whether ^[a-zA-Z\s\-]+$ matches it, and its
\* text once stripped.
AnnName == [text |-> "Ann", len |-> 3, clean |-> TRUE, stripped |-> "Ann"]
LeeName == [text |-> "Lee", len |-> 3, clean |-> TRUE, stripped |-> "Lee"]

\* str.strip(): the characters from the first to the last that is no whitespace.
Strip(chars) ==
    LET inked == {i \in 1..Len(chars) : chars[i] \notin Whitespace} IN
    IF inked = {} THEN <<>>
    ELSE SubSeq(chars, CHOOSE i \in inked : \A j \in inked : i <= j,
                       CHOOSE i \in inked : \A j \in inked : i >= j)

\* The record of a name given as its characters: len(v), the re.match of
\* ^[a-zA-Z\s\-]+$ and v.strip().
NameOf(chars) ==
    [text |-> chars, len |-> Len(chars),
     clean |-> /\ Len(chars) > 0
               /\ \A i \in 1..Len(chars) :
                     chars[i] \in UpperCase \cup LowerCase \cup Whitespace \cup {"-"},
     stripped |-> Strip(chars)]

\* UserRegister.validate_name: "ok", or the message of the clause violated.
validate_name(v) ==
    IF v.len < MinNameLen \/ v.len > MaxNameLen THEN "Name must be between 1 and 50 characters"
    ELSE IF ~v.clean THEN "Name can only contain letters, spaces, and hyphens"
    ELSE "ok"

\* A model that validates the password and lets the names be.
UserRegisterPasswordOnly(body) == validate_password_strength(body.password) = "ok"

\* The UserRegister model: the body passes when every validator does.
UserRegisterValid(body) ==
    /\ validate_password_strength(body.password) = "ok"
    /\ validate_name(body.first_name) = "ok"
    /\ validate_name(body.last_name) = "ok"

(***************************************************************************)
(* Credential Hasher (src/app.py:160-171).  A bcrypt digest carries its    *)
(* salt and cost; checkpw recomputes the digest under the stored salt.     *)
(***************************************************************************)
BcryptRounds == 12
Salts == {"salt-1"}

Bcrypt(text, salt) == <<"bcrypt", BcryptRounds, salt, text>>

hash_password(password, salt) ==
    [wellformed |-> TRUE, salt |-> salt, digest |-> Bcrypt(password.text, salt)]

\* Stored digests bcrypt cannot use: no value (NULL, None in Python), the
\* empty string, and text that is no bcrypt digest.
MissingHash == [wellformed |-> FALSE, salt |-> "", digest |-> <<"", 0, "", "">>]
EmptyHash == [wellformed |-> FALSE, salt |-> "", digest |-> <<"empty", 0, "", "">>]
MalformedHash == [wellformed |-> FALSE, salt |-> "", digest |-> <<"garbage", 0, "", "">>]

\* plain_password.encode, hashed_password.encode and bcrypt.checkpw (line
\* 168): the comparison's result, or the exception raised on a digest that
\* is None (AttributeError) or that bcrypt cannot parse (ValueError).
Checkpw(plain_password, hashed_password) ==
    IF hashed_password = MissingHash THEN [kind |-> "raise", value |-> FALSE]
    ELSE IF ~hashed_password.wellformed THEN [kind |-> "raise", value |-> FALSE]
    ELSE [kind |-> "return",
          value |-> Bcrypt(plain_password.text, hashed_password.salt) = hashed_password.digest]

\* verify_password: `except Exception` turns every exception into False.
verify_password(plain_password, hashed_password) ==
    LET o == Checkpw(plain_password, hashed_password) IN
    IF o.kind = "raise" THEN FALSE ELSE o.value

(***************************************************************************)
(* Token Service (src/app.py:173-194) over PyJWT.  A token is its header   *)
(* algorithm, its payload and its signature; a signature is the key, the   *)
(* algorithm and the payload it was computed over.                         *)
(***************************************************************************)
NoSig == <<"", "", 0, "", 0, 0>>
Sign(key, alg, p) == <<key, alg, p.user_id, p.email, p.exp, p.iat>>

NoPayload == [user_id |-> 0, email |-> "", exp |-> 0, iat |-> 0]
PayloadOf(token) ==
    [user_id |-> token.user_id, email |-> token.email, exp |-> token.exp, iat |-> token.iat]

\* jwt.encode(payload, key, algorithm)
JwtEncode(p, key, alg) ==
    [form |-> "jwt", alg |-> alg, user_id |-> p.user_id, email |-> p.email,
     exp |-> p.exp, iat |-> p.iat, sig |-> Sign(key, alg, p)]

\* create_access_token: the clock is read twice, t1 for "exp" and t2 for "iat".
create_access_token(user_id, email, t1, t2) ==
    JwtEncode([user_id |-> user_id, email |-> email, exp |-> t1 + TokenTTL, iat |-> t2],
              JWT_SECRET_KEY, JWT_ALGORITHM)

\* What a request can carry in place of a token.
AbsentToken == [form |-> "absent", alg |-> "", user_id |-> 0, email |-> "",
                exp |-> 0, iat |-> 0, sig |-> NoSig]
EmptyToken == [AbsentToken EXCEPT !.form = "empty"]
GarbageToken == [AbsentToken EXCEPT !.form = "garbage"]
\* A valid token with one byte of its payload changed (here: the subject).
TamperPayload(token) == [token EXCEPT !.user_id = (token.user_id % MaxUsers) + 1]
\* A well-formed token that declares another algorithm ("none", unsigned).
OtherAlgorithm(token) == [token EXCEPT !.alg = "none", !.sig = NoSig]

\* A token still accepted during the second it expires in.
JwtExpiredStrict(exp, t) == exp < t

\* PyJWT's exp check (_validate_exp, PyJWT 2.6 and later): expired when
\* exp <= now, with the leeway of 0 that decode_token leaves in place.
JwtExpired(exp, t) == exp <= t

\* jwt.decode(token, key, algorithms=[alg]) at instant t: the payload, or
\* the exception PyJWT raises.
JwtDecode(token, key, alg, t) ==
    IF token.form # "jwt" THEN [ok |-> FALSE, exc |-> "DecodeError", payload |-> NoPayload]
    ELSE IF token.alg # alg
        THEN [ok |-> FALSE, exc |-> "InvalidAlgorithmError", payload |-> NoPayload]
    ELSE IF token.sig # Sign(key, alg, PayloadOf(token))
        THEN [ok |-> FALSE, exc |-> "InvalidSignatureError", payload |-> NoPayload]
    ELSE IF token.iat > t
        THEN [ok |-> FALSE, exc |-> "ImmatureSignatureError", payload |-> NoPayload]
    ELSE IF JwtExpired(token.exp, t)
        THEN [ok |-> FALSE, exc |-> "ExpiredSignatureError", payload |-> NoPayload]
    ELSE [ok |-> TRUE, exc |-> "", payload |-> PayloadOf(token)]

\* The exception classes the imported jwt module (PyJWT) has as attributes.
\* It has no attribute JWTError: that name belongs to python-jose.
JwtModuleAttrs ==
    {"PyJWTError", "InvalidTokenError", "DecodeError", "InvalidSignatureError",
     "ExpiredSignatureError", "InvalidAudienceError", "InvalidIssuerError",
     "InvalidIssuedAtError", "ImmatureSignatureError", "InvalidKeyError",
     "InvalidAlgorithmError", "MissingRequiredClaimError"}

\* An outcome of a piece of handler code: it returns, raises HTTPException
\* (status, detail), or raises something else (the server answers 500).
Returned(p) == [kind |-> "return", payload |-> p, status |-> 200, detail |-> ""]
HttpError(status, detail) ==
    [kind |-> "http", payload |-> NoPayload, status |-> status, detail |-> detail]
Unhandled(exc) ==
    [kind |-> "unhandled", payload |-> NoPayload, status |-> 500, detail |-> exc]

\* decode_token.  `except jwt.ExpiredSignatureError` is tried first; an
\* exception that reaches `except jwt.JWTError` makes Python evaluate
\* jwt.JWTError, which raises AttributeError when the module lacks it.
decode_token(token, t) ==
    LET r == JwtDecode(token, JWT_SECRET_KEY, JWT_ALGORITHM, t) IN
    IF r.ok THEN Returned(r.payload)
    ELSE IF r.exc = "ExpiredSignatureError" THEN HttpError(401, "Token has expired")
    ELSE IF "JWTError" \in JwtModuleAttrs THEN HttpError(401, "Invalid token")
    ELSE Unhandled("AttributeError")

(***************************************************************************)
(* Rate limiter (src/app.py:45-48): slowapi's Limiter with its default     *)
(* fixed-window strategy over the in-memory storage of `limits`.           *)
(***************************************************************************)
\* MemoryStorage.get: a key whose expiry has passed is dropped.
StorageGet(count, expiry, t) ==
    IF expiry <= t THEN [count |-> 0, expiry |-> 0]
    ELSE [count |-> count, expiry |-> expiry]

\* An increment computed from a count read earlier, whose write another
\* request's write overtakes: the key stays at the count both had read.
StorageIncrLost(count, expiry, t, span) ==
    LET live == IF expiry <= t THEN [count |-> 0, expiry |-> 0]
                ELSE [count |-> count, expiry |-> expiry]
        c == IF live.count = 0 THEN 1 ELSE live.count
    IN [count |-> c, expiry |-> IF live.count = 0 THEN t + span ELSE live.expiry]

\* MemoryStorage.incr: the hit that makes the count 1 starts the window.
StorageIncr(count, expiry, t, span) ==
    LET live == StorageGet(count, expiry, t)
        c == live.count + 1
    IN [count |-> c, expiry |-> IF c = 1 THEN t + span ELSE live.expiry]

\* A limiter that lets one request more than the quota through.
WithinLimitLoose(count, quota) == count <= quota + 1

\* FixedWindowRateLimiter.hit: the count after the increment against the quota.
WithinLimit(count, quota) == count <= quota

\* History: the fixed window of one (client, route): when it started, how
\* many requests it has counted and how many of them it let through.
NoWindow == [start |-> 0, count |-> 0, admitted |-> 0]
WindowElapsed(w, t, span) == w.count > 0 /\ t >= w.start + span
WindowAfter(w, t, span, ok) ==
    IF w.count = 0 \/ WindowElapsed(w, t, span)
    THEN [start |-> t, count |-> 1, admitted |-> IF ok THEN 1 ELSE 0]
    ELSE [start |-> w.start, count |-> w.count + 1,
          admitted |-> w.admitted + IF ok THEN 1 ELSE 0]

(***************************************************************************)
(* Requests and user rows.                                                 *)
(***************************************************************************)
NoHash == [wellformed |-> FALSE, salt |-> "", digest |-> <<"", 0, "", "">>]
NoUser == [id |-> 0, email |-> "", password_hash |-> NoHash,
           first_name |-> "", last_name |-> ""]
NoIdentity == [id |-> 0, email |-> "", first_name |-> "", last_name |-> ""]
IdentityOf(u) ==
    [id |-> u.id, email |-> u.email, first_name |-> u.first_name, last_name |-> u.last_name]

NoName == [text |-> "", len |-> 0, clean |-> FALSE, stripped |-> ""]
NoPassword == [text |-> "", len |-> 0, upper |-> FALSE, lower |-> FALSE,
               digit |-> FALSE, symbol |-> FALSE]
NoBody == [email |-> "", password |-> NoPassword, first_name |-> NoName, last_name |-> NoName]

\* A handler coroutine that serves nothing.
Idle ==
    [pc |-> "idle", route |-> "", client |-> "", cookie |-> AbsentToken,
     auth |-> AbsentToken, body |-> NoBody, file |-> "",
     stages |-> <<>>, at |-> 0,
     payload |-> NoPayload, row |-> NoUser, hashed |-> NoHash,
     status |-> 0, detail |-> "", identity |-> NoIdentity,
     set_cookie |-> AbsentToken, max_age |-> 0]

Free(h) == req[h].pc \in {"idle", "done"}
InFlight(routes) == {h \in Handlers : ~Free(h) /\ req[h].route \in routes}
Ran(r, stage) == \E i \in 1..Len(r.stages) : r.stages[i] = stage

\* A new request, as it reaches the framework.
Arrived(route, client, cookie, auth, body, file) ==
    [Idle EXCEPT !.pc = "arrived", !.route = route, !.client = client,
                 !.cookie = cookie, !.auth = auth, !.body = body, !.file = file]

\* The response that ends a request.
Respond(r, status, detail) ==
    [r EXCEPT !.pc = "done", !.status = status, !.detail = detail]
RespondOutcome(r, o) == Respond(r, o.status, IF o.kind = "unhandled"
                                             THEN "Internal Server Error" ELSE o.detail)
Stage(r, stage) == [r EXCEPT !.stages = Append(@, stage)]

\* The session cookie register and login set (response.set_cookie).
WithSession(r, token, user) ==
    [Respond(r, 200, "") EXCEPT !.set_cookie = token,
                                !.max_age = JWT_EXPIRATION_HOURS * SecondsPerHour,
                                !.identity = IdentityOf(user)]

(***************************************************************************)
(* Guards that keep the model finite.                                      *)
(***************************************************************************)
CanCount(c, route) ==
    LET key == <<c, route>> IN
    StorageGet(storage[key], expirations[key], now).count
        + Cardinality({h \in InFlight({route}) : req[h].client = c /\ ~Ran(req[h], "limit")})
        < Quota(route) + MaxOver
\* A behaviour floods one (client, route) counter; before that it may
\* register MaxSetup accounts.
OneFlood(c, route) ==
    \/ route = "register" /\ storage[<<c, route>>] < MaxSetup
    \/ \A k \in Keys \ {<<c, route>>} :
          storage[k] <= (IF k[2] = "register" THEN MaxSetup ELSE 0)
CanIssue == Cardinality(issued) + Cardinality(InFlight({"register", "login"})) < MaxIssued
CanInsert == (nextId - 1) + Cardinality(InFlight({"register"})) < MaxUsers

(***************************************************************************)
(* The limiter check slowapi's wrapper makes when the framework calls a    *)
(* decorated endpoint (src/app.py:291, 348, 435): it runs after the        *)
(* framework has validated the body and resolved the dependencies, and     *)
(* before the endpoint's own body; entered is the request once counted and *)
(* let into that body.                                                     *)
\* One counter per client for all its routes.
LimitKeyPerClient(client, route) == <<client, "login">>

\* The storage key of a limit: key_func's value (the remote address) and
\* the decorated endpoint the limit belongs to.
LimitKey(client, route) == <<client, route>>

(***************************************************************************)
CheckRequestLimit(h, r, entered) ==
    LET key == LimitKey(r.client, r.route)
        span == Window(r.route)
        after == StorageIncr(storage[key], expirations[key], now, span)
        ok == WithinLimit(after.count, Quota(r.route))
        w == WindowAfter(window[key], now, span, ok)
        counted == Stage(r, "limit")
    IN /\ storage' = [storage EXCEPT ![key] = after.count]
       /\ expirations' = [expirations EXCEPT ![key] = after.expiry]
       /\ window' = [window EXCEPT ![key] = w]
       /\ req' = [req EXCEPT ![h] = IF ok THEN entered
                                    ELSE Respond(counted, 429, "Rate limit exceeded")]

(***************************************************************************)
(* Session Resolver (src/app.py:196-214).                                  *)
(***************************************************************************)
\* Dual mode: the cookie, and the bearer header when there is no cookie.
ExtractDualMode(cookie, auth) == IF cookie.form \in {"absent", "empty"} THEN auth ELSE cookie
\* The bearer header first, the cookie when there is no header.
ExtractHeaderFirst(cookie, auth) == IF auth.form = "jwt" THEN auth ELSE cookie

\* The only credential the dependency declares is the access_token cookie;
\* the HTTPBearer instance `security` (line 96) is used by no route.
ExtractCredential(cookie, auth) == cookie

\* get_current_user_from_cookie up to its database round trip.
ResolveStart(r, t) ==
    LET access_token == ExtractCredential(r.cookie, r.auth) IN
    IF access_token.form \in {"absent", "empty"}
    THEN Respond(Stage(r, "cookie"), 401, "Not authenticated")
    ELSE LET o == decode_token(access_token, t)
             d == [Stage(Stage(r, "cookie"), "decode") EXCEPT !.at = t]
         IN IF o.kind = "return"
            THEN [d EXCEPT !.pc = "lookup", !.payload = o.payload]
            ELSE RespondOutcome(d, o)

\* A missing row treated as an anonymous caller that may go on.
ResolveFinishAnonymous(r, row) ==
    LET a == [r EXCEPT !.row = row, !.identity = IdentityOf(row)] IN
    IF r.route = "me" THEN Respond(Stage(a, "body"), 200, "")
    ELSE [Stage(a, "validate") EXCEPT !.pc = "endpoint"]

\* get_current_user_from_cookie from the row fetchrow returned, then what
\* the framework does with the resolved dependency.
ResolveFinish(r, row) ==
    IF row = NoUser THEN Respond([r EXCEPT !.row = row], 401, "User not found")
    ELSE LET a == [r EXCEPT !.row = row, !.identity = IdentityOf(row)] IN
         IF r.route = "me" THEN Respond(Stage(a, "body"), 200, "")
         ELSE IF r.file = "missing" THEN Respond(Stage(a, "validate"), 422, "field required")
         ELSE [Stage(a, "validate") EXCEPT !.pc = "endpoint"]

(***************************************************************************)
(* Handlers.                                                               *)
(***************************************************************************)
MalformedEmail == "not-an-email"
EmailStrValid(email) == email # MalformedEmail

UserRegisterError(body) ==
    IF ~EmailStrValid(body.email) THEN "value is not a valid email address"
    ELSE IF validate_password_strength(body.password) # "ok"
        THEN validate_password_strength(body.password)
    ELSE IF validate_name(body.first_name) # "ok" THEN validate_name(body.first_name)
    ELSE validate_name(body.last_name)

RegisterBody(r) == [Stage(r, "body") EXCEPT !.pc = "check"]
LoginBody(r) == [Stage(r, "body") EXCEPT !.pc = "fetch"]

\* validate_image_file on the uploaded bytes, then the endpoint up to its insert.
PredictBody(r) ==
    IF r.file = "empty" THEN Respond(Stage(r, "body"), 400, "Empty file uploaded")
    ELSE IF r.file = "corrupt"
        THEN Respond(Stage(r, "body"), 400, "Invalid or corrupted image file")
    ELSE [Stage(r, "body") EXCEPT !.pc = "save"]

\* POST /api/register reaches the server: the framework validates the body
\* (422 on failure), then calls the limiter-wrapped endpoint.
ReceiveRegister(h, c, body) ==
    /\ Free(h)
    /\ CanCount(c, "register") /\ CanIssue /\ CanInsert
    /\ LET r == Stage(Arrived("register", c, AbsentToken, AbsentToken, body, ""), "validate") IN
       IF EmailStrValid(body.email) /\ UserRegisterValid(body)
       THEN CheckRequestLimit(h, r, RegisterBody(Stage(r, "limit")))
       ELSE /\ req' = [req EXCEPT ![h] = Respond(r, 422, UserRegisterError(body))]
            /\ UNCHANGED <<storage, expirations, window>>
    /\ UNCHANGED <<now, users, nextId, analyses, issued, jar>>

\* register: SELECT id FROM users WHERE email = $1, then hash_password.
CheckStep(h) ==
    /\ req[h].pc = "check"
    /\ \E salt \in Salts :
         LET r == req[h] IN
         req' = [req EXCEPT ![h] =
                    IF \E u \in users : u.email = r.body.email
                    THEN Respond(r, 400, "Email already registered")
                    ELSE [r EXCEPT !.pc = "insert",
                                   !.hashed = hash_password(r.body.password, salt)]]
    /\ UNCHANGED <<now, users, nextId, analyses, issued, storage, expirations, window, jar>>

\* The instants the second clock read of create_access_token can return.
SecondRead == {t \in Instants : t = now \/ t = now + 1}

\* register: INSERT ... RETURNING, create_access_token, set_cookie.  The
\* users table's schema is not part of the repository: when a row with the
\* e-mail is already there, either the table has a unique constraint (the
\* INSERT raises, `except Exception` answers 500) or it has none (a second
\* row is stored).
InsertStep(h) ==
    /\ req[h].pc = "insert"
    /\ \E t2 \in SecondRead, unique \in BOOLEAN :
         LET r == req[h]
             taken == \E u \in users : u.email = r.body.email
             user == [id |-> nextId, email |-> r.body.email, password_hash |-> r.hashed,
                      first_name |-> r.body.first_name.stripped,
                      last_name |-> r.body.last_name.stripped]
             token == create_access_token(user.id, user.email, now, t2)
         IN IF taken /\ unique
            THEN /\ t2 = now
                 /\ req' = [req EXCEPT ![h] = Respond(r, 500, "Registration failed")]
                 /\ UNCHANGED <<users, nextId, issued, now>>
            ELSE /\ taken \/ unique
                 /\ users' = users \cup {user}
                 /\ nextId' = nextId + 1
                 /\ issued' = issued \cup {token}
                 /\ now' = t2
                 /\ req' = [req EXCEPT ![h] = WithSession([r EXCEPT !.row = user], token, user)]
    /\ UNCHANGED <<analyses, storage, expirations, window, jar>>

\* POST /api/login reaches the server.
ReceiveLogin(h, c, body) ==
    /\ Free(h)
    /\ CanCount(c, "login") /\ CanIssue
    /\ LET r == Stage(Arrived("login", c, AbsentToken, AbsentToken, body, ""), "validate") IN
       IF EmailStrValid(body.email)
       THEN CheckRequestLimit(h, r, LoginBody(Stage(r, "limit")))
       ELSE /\ req' = [req EXCEPT ![h] = Respond(r, 422, "value is not a valid email address")]
            /\ UNCHANGED <<storage, expirations, window>>
    /\ UNCHANGED <<now, users, nextId, analyses, issued, jar>>

\* A login that tells a missing account from a wrong password.
LoginFinishRevealing(r, row, t1, t2) ==
    IF row = NoUser THEN Respond([r EXCEPT !.row = row], 404, "User not found")
    ELSE IF ~(row.password_hash.wellformed
              /\ row.password_hash.digest
                   = <<"bcrypt", BcryptRounds, row.password_hash.salt, r.body.password.text>>)
        THEN Respond([r EXCEPT !.row = row], 401, "Invalid email or password")
    ELSE [Respond([r EXCEPT !.row = row], 200, "")
            EXCEPT !.set_cookie = [form |-> "jwt", alg |-> JWT_ALGORITHM, user_id |-> row.id,
                                   email |-> row.email, exp |-> t1 + TokenTTL, iat |-> t2,
                                   sig |-> <<JWT_SECRET_KEY, JWT_ALGORITHM, row.id, row.email,
                                             t1 + TokenTTL, t2>>],
                   !.max_age = TokenTTL,
                   !.identity = [id |-> row.id, email |-> row.email,
                                 first_name |-> row.first_name, last_name |-> row.last_name]]

\* A login that compares digests without catching: what the comparison
\* raises reaches login's own `except Exception`.
LoginFinishUnguarded(r, row, t1, t2) ==
    IF row = NoUser THEN Respond([r EXCEPT !.row = row], 401, "Invalid email or password")
    ELSE IF ~row.password_hash.wellformed
        THEN Respond([r EXCEPT !.row = row], 500, "Login failed")
    ELSE IF row.password_hash.digest
              # <<"bcrypt", BcryptRounds, row.password_hash.salt, r.body.password.text>>
        THEN Respond([r EXCEPT !.row = row], 401, "Invalid email or password")
    ELSE [Respond([r EXCEPT !.row = row], 200, "")
            EXCEPT !.set_cookie = [form |-> "jwt", alg |-> JWT_ALGORITHM, user_id |-> row.id,
                                   email |-> row.email, exp |-> t1 + TokenTTL, iat |-> t2,
                                   sig |-> <<JWT_SECRET_KEY, JWT_ALGORITHM, row.id, row.email,
                                             t1 + TokenTTL, t2>>],
                   !.max_age = TokenTTL,
                   !.identity = [id |-> row.id, email |-> row.email,
                                 first_name |-> row.first_name, last_name |-> row.last_name]]

\* login from the row fetchrow returned: the credential check and its response.
LoginFinish(r, row, t1, t2) ==
    IF row = NoUser \/ ~verify_password(r.body.password, row.password_hash)
    THEN Respond([r EXCEPT !.row = row], 401, "Invalid email or password")
    ELSE WithSession([r EXCEPT !.row = row],
                     create_access_token(row.id, row.email, t1, t2), row)

\* login: SELECT ... FROM users WHERE email = $1, then the rest of the handler.
FetchStep(h) ==
    /\ req[h].pc = "fetch"
    /\ LET rows == {u \in users : u.email = req[h].body.email} IN
       \E row \in (IF rows = {} THEN {NoUser} ELSE rows), t2 \in SecondRead :
         LET done == LoginFinish(req[h], row, now, t2) IN
         /\ req' = [req EXCEPT ![h] = done]
         /\ IF done.status = 200
            THEN issued' = issued \cup {done.set_cookie} /\ now' = t2
            ELSE t2 = now /\ UNCHANGED <<issued, now>>
    /\ UNCHANGED <<users, nextId, analyses, storage, expirations, window, jar>>

\* index: the cookie and decode_token, without the users table; the page
\* is served unless the cookie is missing or decode_token raises, and only
\* an HTTPException is caught (redirect to /login.html).
IndexResponse(r, t) ==
    IF r.cookie.form \in {"absent", "empty"}
    THEN Respond(Stage(r, "cookie"), 303, "/login.html")
    ELSE LET o == decode_token(r.cookie, t)
             d == [Stage(Stage(r, "cookie"), "decode") EXCEPT !.at = t]
         IN IF o.kind = "return" THEN Respond(Stage(d, "body"), 200, "index.html")
            ELSE IF o.kind = "http" THEN Respond(d, 303, "/login.html")
            ELSE RespondOutcome(d, o)

\* GET / reaches the server.
ReceiveIndex(h, c, cookie) ==
    /\ Free(h)
    /\ req' = [req EXCEPT ![h] =
                  IndexResponse(Arrived("index", c, cookie, AbsentToken, NoBody, ""), now)]
    /\ UNCHANGED <<now, users, nextId, analyses, issued, storage, expirations, window, jar>>

\* GET /api/me reaches the server: the framework resolves the dependency.
ReceiveMe(h, c, cookie, auth) ==
    /\ Free(h)
    /\ req' = [req EXCEPT ![h] =
                  ResolveStart(Arrived("me", c, cookie, auth, NoBody, ""), now)]
    /\ UNCHANGED <<now, users, nextId, analyses, issued, storage, expirations, window, jar>>

\* POST /predict reaches the server: the framework resolves the dependency.
ReceivePredict(h, c, cookie, auth, file) ==
    /\ Free(h)
    /\ CanCount(c, "predict")
    /\ req' = [req EXCEPT ![h] =
                  ResolveStart(Arrived("predict", c, cookie, auth, NoBody, file), now)]
    /\ UNCHANGED <<now, users, nextId, analyses, issued, storage, expirations, window, jar>>

\* get_current_user_from_cookie: SELECT ... FROM users WHERE id = $1.
LookupStep(h) ==
    /\ req[h].pc = "lookup"
    /\ LET rows == {u \in users : u.id = req[h].payload.user_id} IN
       \E row \in (IF rows = {} THEN {NoUser} ELSE rows) :
         req' = [req EXCEPT ![h] = ResolveFinish(Stage(req[h], "lookup"), row)]
    /\ UNCHANGED <<now, users, nextId, analyses, issued, storage, expirations, window, jar>>

\* The framework calls the limiter-wrapped predict endpoint.
EndpointStep(h) ==
    /\ req[h].pc = "endpoint"
    /\ CheckRequestLimit(h, req[h], PredictBody(Stage(req[h], "limit")))
    /\ UNCHANGED <<now, users, nextId, analyses, issued, jar>>

\* predict: INSERT INTO analyses, then the result.
SaveStep(h) ==
    /\ req[h].pc = "save"
    /\ analyses' = analyses \cup {req[h].identity.id}
    /\ req' = [req EXCEPT ![h] = Respond(req[h], 200, "")]
    /\ UNCHANGED <<now, users, nextId, issued, storage, expirations, window, jar>>

\* A logout that answers without a Set-Cookie header.
LogoutNoDelete(h, c) ==
    /\ req[h].pc \in {"idle", "done"}
    /\ req' = [req EXCEPT ![h] =
                  [[Idle EXCEPT !.route = "logout", !.client = c, !.stages = <<"body">>]
                     EXCEPT !.pc = "done", !.status = 200,
                            !.detail = "Logged out successfully"]]
    /\ UNCHANGED <<now, users, nextId, analyses, issued, storage, expirations, window, jar>>

\* A logout that also removes the accounts.
LogoutPurging(h, c) ==
    /\ req[h].pc \in {"idle", "done"}
    /\ req' = [req EXCEPT ![h] =
                  [[Idle EXCEPT !.route = "logout", !.client = c, !.stages = <<"body">>]
                     EXCEPT !.pc = "done", !.status = 200,
                            !.detail = "Logged out successfully",
                            !.set_cookie = EmptyToken]]
    /\ users' = {}
    /\ UNCHANGED <<now, nextId, analyses, issued, storage, expirations, window, jar>>

\* POST /api/logout: response.delete_cookie("access_token").
Logout(h, c) ==
    /\ Free(h)
    /\ req' = [req EXCEPT ![h] =
                  [Respond(Stage(Arrived("logout", c, AbsentToken, AbsentToken, NoBody, ""),
                                 "body"), 200, "Logged out successfully")
                     EXCEPT !.set_cookie = EmptyToken, !.max_age = 0]]
    /\ UNCHANGED <<now, users, nextId, analyses, issued, storage, expirations, window, jar>>

(***************************************************************************)
(* The environment: the clock, and the database's other writers.           *)
(***************************************************************************)
Tick(instants) ==
    /\ \E t \in instants : t > now /\ now' = t
    /\ UNCHANGED <<users, nextId, analyses, issued, storage, expirations, window, req, jar>>

\* An account is removed from the users table (no route of the service
\* does it; the spec's "user deleted after issuance").
DeleteUser(u) ==
    /\ u \in users
    /\ users' = users \ {u}
    /\ UNCHANGED <<now, nextId, analyses, issued, storage, expirations, window, req, jar>>

\* Another writer of the users table leaves a row with a digest that is
\* no bcrypt digest (a migration, a manual edit).
CorruptDigest(u, d) ==
    /\ u \in users
    /\ users' = (users \ {u}) \cup {[u EXCEPT !.password_hash = d]}
    /\ UNCHANGED <<now, nextId, analyses, issued, storage, expirations, window, req, jar>>

\* The response of a finished request leaves the server and its coroutine ends.
Deliver(h) ==
    /\ req[h].pc = "done"
    /\ req' = [req EXCEPT ![h] = Idle]
    /\ UNCHANGED <<now, users, nextId, analyses, issued, storage, expirations, window, jar>>

\* A browser's cookie jar: the cookie and the instant it is kept until.
NoCookie == [token |-> AbsentToken, until |-> 0]
\* The Cookie header the browser of client c sends at instant t.
BrowserCookie(c, t) == IF t < jar[c].until THEN jar[c].token ELSE AbsentToken

\* The response reaches a browser, which obeys its Set-Cookie header: a
\* max-age of 0 (delete_cookie) removes the cookie, another one stores it.
BrowserDeliver(h) ==
    /\ req[h].pc = "done"
    /\ jar' = [jar EXCEPT ![req[h].client] =
                  IF req[h].set_cookie = AbsentToken THEN @
                  ELSE IF req[h].max_age = 0 THEN NoCookie
                  ELSE [token |-> req[h].set_cookie, until |-> now + req[h].max_age]]
    /\ req' = [req EXCEPT ![h] = Idle]
    /\ UNCHANGED <<now, users, nextId, analyses, issued, storage, expirations, window>>

Init ==
    /\ now = 0
    /\ users = {}
    /\ nextId = 1
    /\ analyses = {}
    /\ issued = {}
    /\ storage = [k \in Keys |-> 0]
    /\ expirations = [k \in Keys |-> 0]
    /\ window = [k \in Keys |-> NoWindow]
    /\ req = [h \in Handlers |-> Idle]
    /\ jar = [c \in Clients |-> NoCookie]

(***************************************************************************)
(* Specifications.  Each drives the same handlers with the traffic of one  *)
(* concern, so that its state space can be explored in full.               *)
(***************************************************************************)
Browser == "10.0.0.1"

RegisterBodies(emails, passwords) ==
    [email : emails, password : passwords, first_name : {AnnName}, last_name : {LeeName}]
LoginBodies(emails, passwords) ==
    [email : emails, password : passwords, first_name : {NoName}, last_name : {NoName}]

\* Passwords and names as characters: some padding, then every short
\* sequence over one character of each class.
Repeat(c, n) == [i \in 1..n |-> c]
ShortChars == <<"s", "h", "o", "r", "t", "1", "!">>
LongChars == <<"L", "o", "n", "g", "P", "a", "s", "s", "w", "o", "r", "d", "1", "!">>
PolicyAlphabet == {"L", "o", "1", "!", "_"}
PadLens == {0, MinPasswordLen - MaxSuffix - 1, MinPasswordLen - MaxSuffix}
PolicyPasswords ==
    {PasswordOf(Repeat("_", n) \o sfx) :
        n \in PadLens, sfx \in UNION {[1..k -> PolicyAlphabet] : k \in 0..MaxSuffix}}
      \cup {PasswordOf(ShortChars), PasswordOf(LongChars)}
NameAlphabet == {"a", " ", "-", "1"}
PolicyNames ==
    {NameOf(chars) : chars \in UNION {[1..k -> NameAlphabet] : k \in 0..MaxNameChars}}
      \cup {NameOf(Repeat("a", n)) : n \in {MaxNameLen, MaxNameLen + 1}}
      \cup {NameOf(Repeat("a", MaxNameLen - 1) \o <<" ">>),
            NameOf(<<" ">> \o Repeat("a", MaxNameLen))}
PolicyBodies ==
    [email : {"ann@x.org"}, password : PolicyPasswords,
     first_name : {NameOf(<<"A", "n", "n">>)}, last_name : {NameOf(<<"L", "e", "e">>)}]
      \cup [email : {"ann@x.org"}, password : {PasswordOf(LongChars)},
            first_name : PolicyNames, last_name : {NameOf(<<"L", "e", "e">>)}]
      \cup [email : {"ann@x.org"}, password : {PasswordOf(LongChars)},
            first_name : {NameOf(<<"A", "n", "n">>)}, last_name : PolicyNames]

\* What a client can put in the access_token cookie: nothing, an empty or
\* malformed value, a token it was issued, or one it has altered.
Cookies ==
    {AbsentToken, EmptyToken, GarbageToken} \cup issued
        \cup {TamperPayload(t) : t \in issued} \cup {OtherAlgorithm(t) : t \in issued}
\* What a client can put in a bearer Authorization header.
Bearers == {AbsentToken} \cup issued

\* No response is waiting to be delivered.  The specifications that serve
\* one request at a time deliver each response before the next event: a
\* delivered response changes nothing the server reads.
Settled == \A h \in Handlers : req[h].pc # "done"

\* Sessions: one request at a time; an account is registered, its token
\* presented to /api/me (intact or altered) while the clock runs to the
\* token's expiry, and the account is deleted.
NextSession ==
    \/ Settled /\ Tick(TokenInstants)
    \/ \E body \in RegisterBodies({"ann@x.org"}, {LongPassword}) :
         Settled /\ ReceiveRegister("h1", Browser, body)
    \/ CheckStep("h1")
    \/ InsertStep("h1")
    \/ \E cookie \in Cookies : Settled /\ ReceiveMe("h1", Browser, cookie, AbsentToken)
    \/ LookupStep("h1")
    \/ \E u \in users : Settled /\ DeleteUser(u)
    \/ Deliver("h1")

SpecSession == Init /\ [][NextSession]_vars

\* Credential extraction: two accounts, and requests to /api/me that carry
\* any combination of a session cookie and a bearer header.
NextExtract ==
    \/ \E body \in RegisterBodies(Emails, {LongPassword}) :
         Settled /\ ReceiveRegister("h1", Browser, body)
    \/ CheckStep("h1")
    \/ InsertStep("h1")
    \/ \E cookie \in {AbsentToken, EmptyToken} \cup issued, auth \in Bearers :
         Settled /\ ReceiveMe("h1", Browser, cookie, auth)
    \/ LookupStep("h1")
    \/ Deliver("h1")

SpecExtract == Init /\ [][NextExtract]_vars

\* Verification failures side by side: two requests in flight, one account,
\* no Authorization header.
NextVerify ==
    \/ Tick(TokenInstants)
    \/ \E h \in Handlers, body \in RegisterBodies({"ann@x.org"}, {LongPassword}) :
         ReceiveRegister(h, Browser, body)
    \/ \E h \in Handlers : CheckStep(h)
    \/ \E h \in Handlers : InsertStep(h)
    \/ \E h \in Handlers, cookie \in Cookies : ReceiveMe(h, Browser, cookie, AbsentToken)
    \/ \E h \in Handlers : LookupStep(h)

SpecVerify == Init /\ [][NextVerify]_vars

\* Logins side by side: two requests in flight from one client, one handler
\* serving those for an account that gets registered, the other those for
\* an e-mail that never is, over one limiter window and into the next.
LoginInstants == {0, SecondsPerMinute}
NextLogin ==
    \/ Tick(LoginInstants)
    \/ \E body \in RegisterBodies({"ann@x.org"}, {LongPassword}) :
         ReceiveRegister("h1", Browser, body)
    \/ CheckStep("h1")
    \/ InsertStep("h1")
    \/ \E body \in LoginBodies({"ann@x.org"}, Passwords) : ReceiveLogin("h1", Browser, body)
    \/ \E body \in LoginBodies({"bob@x.org"}, {ShortPassword}) :
         ReceiveLogin("h2", Browser, body)
    \/ \E h \in Handlers : FetchStep(h)

SpecLogin == Init /\ [][NextLogin]_vars

\* A browser session: register or log in, ask /api/me with the cookie the
\* browser holds, log out, ask again; a token copied from an earlier
\* response is replayed, while the clock runs to the token's expiry.
NextJourney ==
    \/ Settled /\ Tick(TokenInstants)
    \/ \E body \in RegisterBodies({"ann@x.org"}, {LongPassword}) :
         /\ Settled /\ storage[<<Browser, "register">>] < MaxSetup
         /\ ReceiveRegister("h1", Browser, body)
    \/ CheckStep("h1")
    \/ InsertStep("h1")
    \/ \E body \in LoginBodies({"ann@x.org"}, Passwords) :
         /\ Settled /\ storage[<<Browser, "login">>] < MaxSetup
         /\ ReceiveLogin("h1", Browser, body)
    \/ FetchStep("h1")
    \/ Settled /\ ReceiveMe("h1", Browser, BrowserCookie(Browser, now), AbsentToken)
    \/ \E captured \in issued : Settled /\ ReceiveMe("h1", Browser, captured, AbsentToken)
    \/ LookupStep("h1")
    \/ Settled /\ Logout("h1", Browser)
    \/ BrowserDeliver("h1")

SpecJourney == Init /\ [][NextJourney]_vars

\* Stored digests of every kind: an account is registered, its digest is
\* overwritten, and logins follow, one at a time.
NextDigest ==
    \/ Settled /\ Tick(LoginInstants)
    \/ \E body \in RegisterBodies({"ann@x.org"}, {LongPassword}) :
         Settled /\ ReceiveRegister("h1", Browser, body)
    \/ CheckStep("h1")
    \/ InsertStep("h1")
    \/ \E u \in users, d \in {MissingHash, EmptyHash, MalformedHash} :
         Settled /\ CorruptDigest(u, d)
    \/ \E body \in LoginBodies({"ann@x.org"}, Passwords) :
         Settled /\ ReceiveLogin("h1", Browser, body)
    \/ FetchStep("h1")
    \/ Deliver("h1")

SpecDigest == Init /\ [][NextDigest]_vars

\* Registrations side by side: two requests in flight for one e-mail.
NextRegister ==
    \/ \E h \in Handlers, body \in RegisterBodies({"ann@x.org"}, {LongPassword}) :
         ReceiveRegister(h, Browser, body)
    \/ \E h \in Handlers : CheckStep(h)
    \/ \E h \in Handlers : InsertStep(h)
    \/ \E h \in Handlers : Deliver(h)

SpecRegister == Init /\ [][NextRegister]_vars

\* The gated routes: an account is registered and deleted, and /, /api/me
\* and /predict are asked with cookies of every kind while the clock runs
\* to the token's expiry.
NextGate ==
    \/ Settled /\ Tick(TokenInstants)
    \/ \E body \in RegisterBodies({"ann@x.org"}, {LongPassword}) :
         /\ Settled /\ storage[<<Browser, "register">>] < MaxSetup
         /\ ReceiveRegister("h1", Browser, body)
    \/ CheckStep("h1")
    \/ InsertStep("h1")
    \/ \E u \in users : Settled /\ DeleteUser(u)
    \/ \E cookie \in Cookies : Settled /\ ReceiveIndex("h1", Browser, cookie)
    \/ \E cookie \in Cookies : Settled /\ ReceiveMe("h1", Browser, cookie, AbsentToken)
    \/ \E cookie \in Cookies :
         /\ Settled /\ storage[<<Browser, "predict">>] < MaxSetup
         /\ ReceivePredict("h1", Browser, cookie, AbsentToken, "image")
    \/ LookupStep("h1")
    \/ EndpointStep("h1")
    \/ SaveStep("h1")
    \/ Deliver("h1")

SpecGate == Init /\ [][NextGate]_vars

\* Counters side by side: the first client floods login and sends a
\* little to every other route; a second client logs in.
NextKeys ==
    \/ Settled /\ Tick(LoginInstants)
    \/ \E body \in RegisterBodies({"ann@x.org"}, {LongPassword}) :
         /\ Settled /\ storage[<<Browser, "register">>] < MaxSetup
         /\ ReceiveRegister("h1", Browser, body)
    \/ CheckStep("h1")
    \/ InsertStep("h1")
    \/ \E c \in Clients, body \in LoginBodies({"ann@x.org"}, {ShortPassword}) :
         /\ Settled /\ (c = Browser \/ storage[<<c, "login">>] < MaxSetup)
         /\ ReceiveLogin("h1", c, body)
    \/ FetchStep("h1")
    \/ \E cookie \in issued :
         /\ Settled /\ storage[<<Browser, "predict">>] < MaxSetup
         /\ ReceivePredict("h1", Browser, cookie, AbsentToken, "image")
    \/ Settled /\ ReceiveMe("h1", Browser, AbsentToken, AbsentToken)
    \/ LookupStep("h1")
    \/ EndpointStep("h1")
    \/ SaveStep("h1")
    \/ Settled /\ Logout("h1", Browser)
    \/ Deliver("h1")

SpecKeys == Init /\ [][NextKeys]_vars

\* The Policy Validator: registrations with passwords and names of every
\* kind, one at a time, until one is accepted.
NextPolicy ==
    \/ \E body \in PolicyBodies :
         Settled /\ users = {} /\ ReceiveRegister("h1", Browser, body)
    \/ CheckStep("h1")
    \/ InsertStep("h1")
    \/ Deliver("h1")

SpecPolicy == Init /\ [][NextPolicy]_vars

\* Admission control: one request at a time to the three limited routes,
\* with bodies and credentials that pass and that fail, while the clock
\* runs through the limiter windows.
NextLimit ==
    \/ Settled /\ Tick(LimiterInstants)
    \/ \E body \in RegisterBodies({"ann@x.org"}, Passwords) :
         Settled /\ OneFlood(Browser, "register") /\ ReceiveRegister("h1", Browser, body)
    \/ CheckStep("h1")
    \/ InsertStep("h1")
    \/ \E body \in LoginBodies({"ann@x.org", MalformedEmail}, {ShortPassword}) :
         Settled /\ OneFlood(Browser, "login") /\ ReceiveLogin("h1", Browser, body)
    \/ FetchStep("h1")
    \/ \E cookie \in {AbsentToken, GarbageToken} \cup issued,
          file \in {"missing", "image"} :
         Settled /\ OneFlood(Browser, "predict")
                 /\ ReceivePredict("h1", Browser, cookie, AbsentToken, file)
    \/ LookupStep("h1")
    \/ EndpointStep("h1")
    \/ SaveStep("h1")
    \/ Deliver("h1")

SpecLimit == Init /\ [][NextLimit]_vars

(***************************************************************************)
(* Properties.                                                             *)
(***************************************************************************)
Resolving == {"me", "predict"}
\* The token is one the server issued, unaltered.
Genuine(token) == token \in issued
\* The token is malformed, carries a signature that does not match the
\* process key, or declares another algorithm than the configured one.
Forged(token) ==
    \/ token.form = "garbage"
    \/ token.form = "jwt" /\ token.alg # JWT_ALGORITHM
    \/ token.form = "jwt" /\ token.sig # Sign(JWT_SECRET_KEY, JWT_ALGORITHM, PayloadOf(token))
ExpiredResponse(r) == r.pc = "done" /\ r.status = 401 /\ r.detail = "Token has expired"

\* C1: a token issued by create_access_token and presented to decode_token
\* is decoded to its own claims at every instant before its expires-at (the
\* instant of issuance is one), and is refused as expired, claims never
\* returned, at every instant at or after its expires-at, the instant
\* now = expires-at included.
C1_TokenLifetime ==
    \A h \in Handlers :
        LET r == req[h] IN
        (r.route \in Resolving /\ Ran(r, "decode") /\ Genuine(r.cookie)) =>
            /\ r.at >= r.cookie.exp => (ExpiredResponse(r) /\ r.payload = NoPayload)
            /\ r.at < r.cookie.exp => (r.payload = PayloadOf(r.cookie) /\ ~ExpiredResponse(r))
            /\ r.at = r.cookie.iat => r.payload = PayloadOf(r.cookie)

\* C1's case: a genuine token presented at the very instant it expires.
C1_Witness ==
    \E h \in Handlers :
        /\ Ran(req[h], "decode") /\ Genuine(req[h].cookie)
        /\ req[h].at = req[h].cookie.exp
        /\ ExpiredResponse(req[h])

\* C2: a malformed token, a token whose signature does not match the process
\* key and a token that declares another algorithm all end decode_token in
\* the Invalid failure, answered 401; claims are never returned and the
\* request never ends otherwise (no internal error).
C2_ForgedIs401 ==
    \A h \in Handlers :
        LET r == req[h] IN
        (r.route \in Resolving /\ Ran(r, "decode") /\ Forged(r.cookie)) =>
            (r.pc = "done" /\ r.status = 401 /\ r.detail = "Invalid token" /\ r.payload = NoPayload)

\* C3: session resolution of a token that verifies (signature, expiry) but
\* whose subject id has no row at lookup time fails with 401; no identity is
\* returned and the request does not go on.
C3_OrphanRejected ==
    \A h \in Handlers :
        LET r == req[h] IN
        (r.route \in Resolving /\ Ran(r, "lookup") /\ r.row = NoUser) =>
            /\ r.pc = "done" /\ r.status = 401 /\ r.detail = "User not found"
            /\ r.identity = NoIdentity
            /\ ~Ran(r, "body")

\* C3's case: a genuine, unexpired token whose account was deleted after
\* the token was issued.
C3_Witness ==
    \E h \in Handlers :
        /\ Ran(req[h], "lookup") /\ Genuine(req[h].cookie)
        /\ req[h].at < req[h].cookie.exp
        /\ ~\E u \in users : u.id = req[h].cookie.user_id
        /\ req[h].status = 401

\* C7: a request whose access_token cookie is absent or empty ends with 401
\* "Not authenticated" before any token is verified or any user looked up,
\* whatever its Authorization header carries.
C7_NoCookieUnauthenticated ==
    \A h \in Handlers :
        LET r == req[h] IN
        (r.route \in Resolving /\ r.cookie.form \in {"absent", "empty"}) =>
            /\ r.pc = "done" /\ r.status = 401 /\ r.detail = "Not authenticated"
            /\ ~Ran(r, "decode") /\ ~Ran(r, "lookup")
            /\ r.identity = NoIdentity

\* C7's case: no cookie, and a bearer header with a genuine token of an
\* existing account.
C7_Witness ==
    \E h \in Handlers :
        /\ req[h].route \in Resolving /\ req[h].cookie.form = "absent"
        /\ Genuine(req[h].auth)
        /\ \E u \in users : u.id = req[h].auth.user_id
        /\ req[h].status = 401

\* C8: the resolved identity is the subject of the cookie's token, and the
\* outcome of extraction and verification is the one of the same request
\* without its Authorization header.
C8_CookieDecides ==
    \A h \in Handlers :
        LET r == req[h] IN
        r.route \in Resolving =>
            /\ (r.pc = "done" /\ r.status = 200) =>
                   (r.identity.id = r.cookie.user_id /\ r.identity.email = r.cookie.email)
            /\ ~Ran(r, "lookup") =>
                   [r EXCEPT !.auth = AbsentToken]
                     = ResolveStart(Arrived(r.route, r.client, r.cookie, AbsentToken,
                                            r.body, r.file), r.at)

\* C8's case: a genuine cookie and a genuine bearer header of two accounts.
C8_Witness ==
    \E h \in Handlers :
        /\ req[h].pc = "done" /\ req[h].status = 200
        /\ Genuine(req[h].cookie) /\ Genuine(req[h].auth)
        /\ req[h].auth.user_id # req[h].cookie.user_id
        /\ \E u \in users : u.id = req[h].auth.user_id
        /\ req[h].identity.id = req[h].cookie.user_id

\* The step in which the request of handler h is counted by the limiter.
Counted(h) == ~Ran(req[h], "limit") /\ Ran(req'[h], "limit")
\* The place the next request of a (client, route) takes in its window.
Ordinal(key) ==
    IF window[key].count = 0 \/ WindowElapsed(window[key], now, Window(key[2]))
    THEN 1 ELSE window[key].count + 1
Rejected(r) == r.pc = "done" /\ r.status = 429 /\ r.detail = "Rate limit exceeded"

\* C4: on each limited route (quota N per window W) and for each client, a
\* request counted after N others of the same window is rejected with quota
\* exceeded and its handler body does not run; a request counted among the
\* first N of a window is let through to the body, and the first request
\* after the window has elapsed is one of them.
C4_QuotaPerWindow ==
    [][\A h \in Handlers :
          Counted(h) =>
              LET r == req'[h]
                  key == <<r.client, r.route>>
              IN /\ Ordinal(key) > Quota(r.route) => (Rejected(r) /\ ~Ran(r, "body"))
                 /\ Ordinal(key) <= Quota(r.route) => (~Rejected(r) /\ Ran(r, "body"))
                 /\ WindowElapsed(window[key], now, Window(r.route)) =>
                        (~Rejected(r) /\ window'[key].start = now)]_vars

\* C4's case: the request after the N-th of a window has been rejected.
C4_Witness ==
    \E h \in Handlers :
        LET r == req[h] IN
        /\ r.route \in LimitedRoutes /\ Rejected(r) /\ ~Ran(r, "body")
        /\ window[<<r.client, r.route>>].count = Quota(r.route) + 1
        /\ window[<<r.client, r.route>>].admitted = Quota(r.route)
        /\ now < window[<<r.client, r.route>>].start + Window(r.route)

\* C9: the limiter is the first stage of every request to a limited route:
\* whatever the request's credentials or payload, it has been counted before
\* anything else is done with it, and every answered request was counted.
C9_LimiterFirst ==
    \A h \in Handlers :
        LET r == req[h] IN
        (r.route \in LimitedRoutes /\ r.stages # <<>>) => r.stages[1] = "limit"

\* C5: whatever the interleaving of the requests one client has in flight on
\* one limited route, the requests let through in one window never number
\* more than the route's quota.
C5_AdmittedWithinQuota ==
    \A key \in Keys : window[key].admitted <= Quota(key[2])

\* C5's case: two requests of one client in flight together on a route one
\* under its quota: one took the last place of the window and is still
\* being served, the other was rejected.
C5_Witness ==
    \E a, b \in Handlers :
        /\ a # b /\ req[a].route = "login" /\ req[b].route = "login"
        /\ req[a].client = req[b].client
        /\ req[a].pc = "fetch" /\ Rejected(req[b])
        /\ window[<<req[a].client, "login">>].admitted = LoginQuota
        /\ window[<<req[a].client, "login">>].count = LoginQuota + 1

\* A login that got to the credential check and did not pass it.
FailedLogin(r) ==
    /\ r.route = "login" /\ r.pc = "done" /\ Ran(r, "body")
    /\ (r.row = NoUser \/ ~verify_password(r.body.password, r.row.password_hash))
\* What the client sees of a response.
ClientVisible(r) ==
    [status |-> r.status, detail |-> r.detail, set_cookie |-> r.set_cookie,
     max_age |-> r.max_age, identity |-> r.identity]

\* C6: a login whose credentials do not match is answered 401 with the
\* generic detail, no cookie and no identity, the same whether the e-mail
\* has an account or not; and it issues no token.
C6_SameFailure ==
    /\ [](\A a, b \in Handlers :
             (FailedLogin(req[a]) /\ FailedLogin(req[b])) =>
                 /\ ClientVisible(req[a]) = ClientVisible(req[b])
                 /\ req[a].status = 401 /\ req[a].detail = "Invalid email or password"
                 /\ req[a].set_cookie = AbsentToken /\ req[a].identity = NoIdentity)
    /\ [][\A h \in Handlers :
             (~FailedLogin(req[h]) /\ FailedLogin(req'[h])) => issued' = issued]_vars

\* C6's case: a wrong password for an account that exists and a login for
\* an e-mail without account, both answered.
C6_Witness ==
    \E a, b \in Handlers :
        /\ FailedLogin(req[a]) /\ FailedLogin(req[b])
        /\ req[a].row # NoUser /\ req[a].row \in users
        /\ req[b].row = NoUser /\ ~\E u \in users : u.email = req[b].body.email

\* C10: two requests to the same authenticated route, one with an expired
\* token and one with an invalid (altered or malformed) token, get the same
\* status and the same body.
C10_SameVerificationFailure ==
    \A a, b \in Handlers :
        ( /\ req[a].route \in Resolving /\ req[a].route = req[b].route
          /\ req[a].pc = "done" /\ req[b].pc = "done"
          /\ Genuine(req[a].cookie) /\ req[a].at >= req[a].cookie.exp
          /\ Forged(req[b].cookie) )
        => (req[a].status = req[b].status /\ req[a].detail = req[b].detail)

\* The first of the five clauses, in the order length, uppercase, lowercase,
\* digit, symbol, that a password given as its characters violates.
FirstViolated(chars) ==
    IF Len(chars) < 12 THEN "Password must be at least 12 characters long"
    ELSE IF ~\E i \in 1..Len(chars) : chars[i] \in UpperCase
        THEN "Password must contain at least one uppercase letter"
    ELSE IF ~\E i \in 1..Len(chars) : chars[i] \in LowerCase
        THEN "Password must contain at least one lowercase letter"
    ELSE IF ~\E i \in 1..Len(chars) : chars[i] \in Digits
        THEN "Password must contain at least one number"
    ELSE IF ~\E i \in 1..Len(chars) : chars[i] \in Punctuation
        THEN "Password must contain at least one special character"
    ELSE "none"
WeakPassword(r, reason) == r.pc = "done" /\ r.status = 422 /\ r.detail = reason
GoodNames(body) ==
    validate_name(body.first_name) = "ok" /\ validate_name(body.last_name) = "ok"

\* C11: a password passes validate_password_strength exactly when it has at
\* least 12 characters, an uppercase letter, a lowercase letter, a digit and
\* a symbol of the punctuation set; a password that does not is refused with
\* the message of the first clause it violates, in that order.  "short1!"
\* is refused as too short and "LongPassword1!" passes.
C11_PasswordPolicy ==
    \A h \in Handlers :
        LET r == req[h]
            chars == r.body.password.text
        IN (r.route = "register" /\ GoodNames(r.body)) =>
            /\ FirstViolated(chars) = "none" <=> Ran(r, "limit")
            /\ FirstViolated(chars) # "none" => WeakPassword(r, FirstViolated(chars))
            /\ chars = ShortChars =>
                   WeakPassword(r, "Password must be at least 12 characters long")
            /\ chars = LongChars => Ran(r, "limit")

\* C11's case: a password of 12 characters with three of the four classes
\* has been refused for the class it lacks.
C11_Witness ==
    \E h \in Handlers :
        /\ req[h].route = "register" /\ req[h].body.password.len >= 12
        /\ WeakPassword(req[h], "Password must contain at least one special character")

\* The name policy, of a name given as its characters.
NamePolicy(chars) ==
    /\ Len(chars) >= 1 /\ Len(chars) <= 50
    /\ \A i \in 1..Len(chars) :
          chars[i] \in UpperCase \cup LowerCase \cup Whitespace \cup {"-"}

\* C12: a registration whose first or last name violates the name policy
\* (a name that is empty once trimmed included) is refused and stores
\* nothing; the names a registration stores are the trimmed inputs, of 1 to
\* 50 characters, all of them letters, whitespace or hyphens.
C12_StoredNames ==
    \A h \in Handlers :
        LET r == req[h] IN
        r.route = "register" =>
            /\ ( \/ ~NamePolicy(Strip(r.body.first_name.text))
                 \/ ~NamePolicy(Strip(r.body.last_name.text)) )
               => (r.pc = "done" /\ r.status = 422 /\ r.row = NoUser)
            /\ r.row # NoUser =>
                  /\ r.row.first_name = Strip(r.body.first_name.text)
                  /\ r.row.last_name = Strip(r.body.last_name.text)
                  /\ NamePolicy(r.row.first_name) /\ NamePolicy(r.row.last_name)

\* The body fails one of the validators of the UserRegister model.
FailsPolicy(body) ==
    \/ validate_password_strength(body.password) # "ok"
    \/ validate_name(body.first_name) # "ok"
    \/ validate_name(body.last_name) # "ok"

\* C13: a register request whose password or names fail the validators
\* never reaches the handler body: no hash is computed, no row inserted, no
\* token issued and no cookie set, and the step that answers it leaves the
\* user records as they were.
C13_InvalidRegisterChangesNothing ==
    /\ [](\A h \in Handlers :
             (req[h].route = "register" /\ FailsPolicy(req[h].body)) =>
                 /\ req[h].pc = "done" /\ req[h].status = 422
                 /\ ~Ran(req[h], "body") /\ req[h].hashed = NoHash
                 /\ req[h].row = NoUser /\ req[h].set_cookie = AbsentToken)
    /\ [][\A h \in Handlers :
             (req'[h] # req[h] /\ req'[h].route = "register" /\ FailsPolicy(req'[h].body)) =>
                 (users' = users /\ nextId' = nextId /\ issued' = issued)]_vars

\* C13's case: a registration with a sound password and a name the
\* validator refuses has been answered.
C13_Witness ==
    \E h \in Handlers :
        /\ req[h].route = "register" /\ req[h].pc = "done" /\ req[h].status = 422
        /\ validate_password_strength(req[h].body.password) = "ok"
        /\ validate_name(req[h].body.first_name) # "ok"
        /\ users = {} /\ issued = {}

\* A register or login request answered with a session.
SessionResponse(r) == r.route \in {"register", "login"} /\ r.pc = "done" /\ r.status = 200
\* The step in which the response of handler h reaches the client.
Delivered(h) == req[h].pc = "done" /\ req'[h].pc = "idle"

\* C14: a successful register or login for an e-mail answers with a session
\* cookie for that e-mail and the account's id, which the browser then
\* holds; /api/me with a cookie the server issued, before its expiry,
\* answers the identity with that e-mail and id; once the logout response
\* has reached the browser it holds no cookie, and /api/me without cookie
\* is answered 401 "Not authenticated".
C14_Journey ==
    /\ [](\A h \in Handlers :
             LET r == req[h] IN
             /\ SessionResponse(r) =>
                   /\ Genuine(r.set_cookie) /\ r.set_cookie.email = r.body.email
                   /\ r.set_cookie.user_id = r.row.id /\ r.row.email = r.body.email
             /\ (r.route = "me" /\ r.pc = "done" /\ Genuine(r.cookie) /\ r.at < r.cookie.exp) =>
                   /\ r.status = 200
                   /\ r.identity.email = r.cookie.email /\ r.identity.id = r.cookie.user_id
                   /\ \E u \in users : IdentityOf(u) = r.identity
             /\ (r.route = "me" /\ r.cookie = AbsentToken) =>
                   (r.pc = "done" /\ r.status = 401 /\ r.detail = "Not authenticated"))
    /\ [][\A h \in Handlers :
             Delivered(h) =>
                 /\ SessionResponse(req[h]) =>
                       /\ jar'[req[h].client].token = req[h].set_cookie
                       /\ now < jar'[req[h].client].until
                 /\ req[h].route = "logout" => jar'[req[h].client] = NoCookie]_vars

\* C14's case: the account exists, the browser has logged out, and its
\* /api/me has been refused.
C14_Witness ==
    \E h \in Handlers :
        /\ req[h].route = "me" /\ req[h].pc = "done" /\ req[h].status = 401
        /\ req[h].cookie = AbsentToken
        /\ jar[req[h].client] = NoCookie
        /\ \E t \in issued : \E u \in users : u.id = t.user_id /\ now < t.exp

\* The step in which handler h serves a logout.
LogsOut(h) == req'[h] # req[h] /\ req'[h].route = "logout"

\* C19: logout changes nothing on the server (user rows, id sequence,
\* analyses, issued tokens, limiter counters) and answers with the deletion
\* of the cookie; whatever logouts came before, /api/me with a token the
\* server issued, before its expiry and while its account exists, answers
\* the identity.
C19_LogoutKeepsTokens ==
    /\ [][\A h \in Handlers :
             LogsOut(h) =>
                 /\ UNCHANGED <<now, users, nextId, analyses, issued, storage, expirations>>
                 /\ req'[h].status = 200
                 /\ req'[h].set_cookie = EmptyToken /\ req'[h].max_age = 0]_vars
    /\ [](\A h \in Handlers :
             LET r == req[h] IN
             ( /\ r.route = "me" /\ r.pc = "done"
               /\ Genuine(r.cookie) /\ r.at < r.cookie.exp
               /\ r.row # NoUser )
             => (r.status = 200 /\ r.identity.id = r.cookie.user_id))

\* C19's case: the browser has logged out and holds no cookie, and the
\* token it was given earlier, presented again, has been accepted.
C19_Witness ==
    \E h \in Handlers :
        /\ req[h].route = "me" /\ req[h].pc = "done" /\ req[h].status = 200
        /\ Genuine(req[h].cookie)
        /\ jar[req[h].client] = NoCookie

\* C15: verify_password answers true or false for every plain password and
\* every stored digest, and false for a digest that is missing, empty or
\* malformed; a login against an account whose stored digest is one of
\* these ends in 401 "Invalid email or password" without cookie, never in
\* an internal error.
C15_VerifyNeverRaises ==
    /\ \A plain \in Passwords :
          /\ \A d \in {MissingHash, EmptyHash, MalformedHash} : verify_password(plain, d) = FALSE
          /\ \A u \in users : verify_password(plain, u.password_hash) \in BOOLEAN
    /\ \A h \in Handlers :
          LET r == req[h] IN
          (r.route = "login" /\ r.pc = "done" /\ Ran(r, "body")) =>
              /\ r.status \in {200, 401}
              /\ (r.row # NoUser /\ ~r.row.password_hash.wellformed) =>
                    /\ r.status = 401 /\ r.detail = "Invalid email or password"
                    /\ r.set_cookie = AbsentToken

\* C15's case: a login with the account's own password, against a stored
\* digest that is no bcrypt digest, has been answered.
C15_Witness ==
    \E h \in Handlers :
        /\ req[h].route = "login" /\ req[h].pc = "done"
        /\ req[h].body.password = LongPassword
        /\ req[h].row.password_hash = MalformedHash
        /\ req[h].status = 401

\* C16: however register requests for one e-mail interleave, there is at
\* most one user row with the e-mail, a request that got to the handler
\* body is answered 200 or 400 "Email already registered", never 500, and
\* of two such requests answered at most one got 200.
C16_OneAccountPerEmail ==
    /\ \A e \in Emails : Cardinality({u \in users : u.email = e}) <= 1
    /\ \A h \in Handlers :
          (req[h].route = "register" /\ req[h].pc = "done" /\ Ran(req[h], "body")) =>
              \/ req[h].status = 200
              \/ req[h].status = 400 /\ req[h].detail = "Email already registered"
    /\ \A a, b \in Handlers :
          ( /\ a # b /\ SessionResponse(req[a]) /\ SessionResponse(req[b])
            /\ req[a].route = "register" /\ req[b].route = "register" )
          => req[a].body.email # req[b].body.email

\* The routes that serve their content to identified callers only.
Gated == {"index", "me", "predict"}

\* C17: a gated route (/, /api/me, /predict) serves its content only to a
\* request the Session Resolver has resolved: its token was issued by the
\* server and had not expired, and the lookup of its subject found a user
\* row.
C17_GatedByResolver ==
    \A h \in Handlers :
        LET r == req[h] IN
        (r.route \in Gated /\ Ran(r, "body")) =>
            /\ Genuine(r.cookie) /\ r.at < r.cookie.exp
            /\ Ran(r, "lookup") /\ r.row # NoUser

\* C18: every issued token has expires-at = issued-at + the time-to-live,
\* in whole seconds, however the clock moves between the two reads of
\* create_access_token; and the session cookie's max-age is that
\* time-to-live.
C18_ExpiryFromIssuedAt ==
    /\ \A t \in issued : t.exp = t.iat + JWT_EXPIRATION_HOURS * SecondsPerHour
    /\ \A h \in Handlers :
          SessionResponse(req[h]) => req[h].max_age = JWT_EXPIRATION_HOURS * SecondsPerHour

\* C20: a step changes the counter of a (client, route) only by counting a
\* request of that client to that route; a counted request is rejected
\* only when its own pair's window is full; /api/me and /api/logout are
\* never answered 429.
C20_IndependentCounters ==
    /\ [][\A k \in Keys :
             (storage'[k] # storage[k] \/ expirations'[k] # expirations[k]) =>
                 \E h \in Handlers :
                     Counted(h) /\ k = <<req'[h].client, req'[h].route>>]_vars
    /\ [][\A h \in Handlers :
             (Counted(h) /\ Rejected(req'[h])) =>
                 Ordinal(<<req'[h].client, req'[h].route>>) > Quota(req'[h].route)]_vars
    /\ [](\A h \in Handlers : req[h].route \in {"me", "logout"} => req[h].status # 429)

\* C20's case: the first client's login window is full, and within it a
\* request to another route, or of the other client, was counted and let
\* through.
C20_Witness ==
    \E h \in Handlers :
        /\ req[h].route \in LimitedRoutes /\ Ran(req[h], "body")
        /\ <<req[h].client, req[h].route>> # <<Browser, "login">>
        /\ window[<<Browser, "login">>].count > LoginQuota
        /\ now < window[<<Browser, "login">>].start + SecondsPerMinute
        /\ window[<<req[h].client, req[h].route>>].start >= window[<<Browser, "login">>].start

====
